---- MODULE Spec2Model ----
(***************************************************************************)
(* A model of the VCD writer engine of src/src/vcd_writer.cpp: the         *)
(* registration / dumping lifecycle of VCDWriter, the per-type value       *)
(* encoders and the emission of the header and of the value section.       *)
(*                                                                         *)
(* Strings are sequences of one-character strings, so that the encoders    *)
(* and the scope-tree emission index them the way the C++ code does.  The  *)
(* output file is the sequence of the lines written to it, each line a     *)
(* tuple whose first element names its format string.                      *)
(***************************************************************************)
EXTENDS Integers, Sequences, FiniteSets, TLC

\* ------------------------------------------------------------------------
\* Bounds of the model (not program constants).

\* Largest timestamp a change call is given.
MaxTime == 3

\* Largest number of change records the change calls write.
MaxRecords == 2

\* Largest number of successful registrations.
MaxVars == 2

\* ------------------------------------------------------------------------
\* Characters and strings.

\* VCDValues (vcd_writer.h), used as characters by the encoders.
VCDValues == [ONE |-> "1", ZERO |-> "0", UNDEF |-> "x", HIGHV |-> "z"]

\* tolower() on the characters the model feeds the encoders.
tolower(c) ==
    CASE c = "X" -> "x"
      [] c = "Z" -> "z"
      [] c = "G" -> "g"
      [] OTHER -> c

\* std::string(n, c)
Fill(n, c) == [i \in 1..n |-> c]

\* Character codes, for std::string's operator< (only the order matters).
Ord(c) ==
    CASE c = " " -> 32
      [] c = "." -> 46
      [] c = "0" -> 48
      [] c = "1" -> 49
      [] c = "G" -> 71
      [] c = "X" -> 88
      [] c = "Z" -> 90
      [] c = "a" -> 97
      [] c = "b" -> 98
      [] c = "c" -> 99
      [] c = "d" -> 100
      [] c = "g" -> 103
      [] c = "x" -> 120
      [] c = "z" -> 122
      [] OTHER -> 127

\* l->name < r->name on std::string: lexicographic, a proper prefix is smaller.
RECURSIVE StrLess(_, _)
StrLess(a, b) ==
    IF b = <<>> THEN FALSE
    ELSE IF a = <<>> THEN TRUE
    ELSE IF Ord(Head(a)) < Ord(Head(b)) THEN TRUE
    ELSE IF Ord(Head(a)) > Ord(Head(b)) THEN FALSE
    ELSE StrLess(Tail(a), Tail(b))

\* std::string::npos, as a position no string of the model reaches.
npos == -1

\* s.find(sep, pos) with 0-based positions: the first position >= pos at
\* which sep occurs in s, npos when there is none.
Find(s, sep, pos) ==
    LET hits == {p \in 0..(Len(s) - Len(sep)) :
                    /\ p >= pos
                    /\ \A j \in 1..Len(sep) : s[p + j] = sep[j]}
    IN IF hits = {} THEN npos
       ELSE CHOOSE p \in hits : \A q \in hits : p <= q

\* s.substr(pos, count) with a 0-based pos <= s.size(); count = npos takes
\* the rest of the string.
Substr(s, pos, count) ==
    LET last == IF count = npos \/ pos + count > Len(s) THEN Len(s) ELSE pos + count
    IN [i \in 1..(last - pos) |-> s[pos + i]]

\* std::strncmp(a, b, n) == 0: the first n characters agree, a string that
\* ends earlier comparing as its terminating NUL.
StrNCmpEq(a, b, n) ==
    LET at(s, i) == IF i <= Len(s) THEN s[i] ELSE "NUL"
    IN \A i \in 1..n :
          (\A j \in 1..(i - 1) : at(a, j) # "NUL") => at(a, i) = at(b, i)

\* ------------------------------------------------------------------------
\* The encoders: VCD*Variable::change_record.  Each returns the exception
\* it throws ("" when it returns normally) and the change record.

Record(v) == [err |-> "", what |-> "", val |-> v]

Throw(e, what) == [err |-> e, what |-> what, val |-> <<>>]

\* The four states of a bit.
IsVCDValue(c) ==
    c \in {VCDValues.ONE, VCDValues.ZERO, VCDValues.UNDEF, VCDValues.HIGHV}

\* VCDScalarVariable::change_record
ScalarRecord(value) ==
    LET c == IF Len(value) # 0 THEN tolower(value[1]) ELSE VCDValues.UNDEF
    IN IF Len(value) # 1 \/ ~IsVCDValue(c)
       THEN Throw("TypeError", "Invalid scalar value")
       ELSE Record(<<c>>)

\* VCDStringVariable::change_record
StringRecord(value) ==
    IF \E i \in 1..Len(value) : value[i] = " "
    THEN Throw("TypeError", "Invalid string value")
    ELSE Record(<<"s">> \o value \o <<" ">>)

\* stod() on the inputs of the model: the double parsed, as the text that
\* "%.16g" prints for it; <<>> when stod throws std::invalid_argument.
Stod(value) ==
    CASE value = <<"0", ".", "0">> -> <<"0">>
      [] value = <<"0">> -> <<"0">>
      [] value = <<"1">> -> <<"1">>
      [] value = <<"0", "1">> -> <<"1">>
      [] value = <<"1", ".", "0">> -> <<"1">>
      [] OTHER -> <<>>

\* VCDRealVariable::change_record
RealRecord(value) ==
    IF Stod(value) = <<>>
    THEN Throw("invalid_argument", "stod")
    ELSE Record(<<"r">> \o Stod(value) \o <<" ">>)

\* val_sz - 1 on the unsigned val_sz: 0 - 1 wraps to SIZE_MAX, which is
\* beyond every index the loop below reaches before it throws.
LoopEnd(val_sz) == IF val_sz = 0 THEN Len(<<"b", " ">>) + 1 ELSE val_sz - 1

\* The validation loop of VCDVectorVariable::change_record from 0-based
\* index i on: lower-cases val[i] and checks it, for i < val_sz - 1.
\* Returns the string, or <<>> when the loop throws.
RECURSIVE VectorLoop(_, _, _)
VectorLoop(val, i, end) ==
    IF ~(i < end) THEN val
    ELSE LET c == tolower(val[i + 1])
         IN IF IsVCDValue(c)
            THEN VectorLoop([val EXCEPT ![i + 1] = c], i + 1, end)
            ELSE <<>>

\* VCDVectorVariable::change_record of a variable of _size bits.
VectorRecord(size, value) ==
    IF Len(value) > size THEN Throw("TypeError", "Invalid binary vector value")
    ELSE LET val_sz == Len(value)
             val == VectorLoop(<<"b">> \o value \o <<" ">>, 1, LoopEnd(val_sz))
             k == size - val_sz
         IN IF val = <<>> THEN Throw("TypeError", "Invalid binary vector value")
            ELSE IF val_sz = 0
            THEN Record(<<"b">> \o Fill(size, VCDValues.UNDEF) \o <<" ">>)
            ELSE IF val_sz < size
            THEN Record(<<"b">> \o Fill(k, VCDValues.ZERO)
                          \o SubSeq(val, 2, val_sz + 1) \o <<" ">>)
            ELSE Record(val)

\* var->change_record(value): the virtual call, by the variable's class.
change_record(var, value) ==
    CASE var.class = "scalar" -> ScalarRecord(value)
      [] var.class = "vector" -> VectorRecord(var.size, value)
      [] var.class = "real" -> RealRecord(value)
      [] var.class = "string" -> StringRecord(value)

\* ------------------------------------------------------------------------
\* The state of a VCDWriter.

VARIABLES
    _timestamp,     \* the watermark: the last accepted timestamp
    _dumping,       \* change records are written
    _registering,   \* the REGISTERING phase
    _closed,        \* the CLOSED phase
    _header,        \* TRUE while the header metadata is held
    _scopes,        \* scope name -> [type, vars]: the set of VCDScope
    _vars,          \* <<scope, name>> -> variable: the registry
    _vars_prevs,    \* <<scope, name>> -> [var, value]: the tracker
    _next_var_id,   \* the next sequential id
    _ofile,         \* the lines written to the output file
    call            \* the last call: its name, its exception, its result

vars ==
    <<_timestamp, _dumping, _registering, _closed, _header, _scopes, _vars,
      _vars_prevs, _next_var_id, _ofile, call>>

\* The engine's own state: everything but the record of the last call.
engine ==
    <<_timestamp, _dumping, _registering, _closed, _header, _scopes, _vars,
      _vars_prevs, _next_var_id, _ofile>>

\* _scope_sep, set by the constructor.
_scope_sep == <<".">>

\* _scope_def_type, set by the constructor.
_scope_def_type == "module"

\* The header metadata of the model: kw_names and kw_values of VCDHeader.
\* The comment is empty, so that its line is skipped.
kw_names == <<"$timescale", "$date", "$comment", "$version">>

kw_values == <<"1 us", "today", "", "v1">>

\* ------------------------------------------------------------------------
\* The inputs of the model.

\* The initial timestamps the engine is constructed with.
InitTimestamps == {1}

\* Whether dumping is enabled at start (a construction-time option).
DumpingAtStart == BOOLEAN

\* The scope and the name of the calls; register_var is given the first
\* names only, so that a change call can name a pair never registered.
ScopeNames == {<<>>, <<"a">>}

RegisterNames == {<<"c">>}

VarNames == {<<"c">>, <<"d">>}

\* The semantic types and sizes the model registers, out of VAR_TYPES: a
\* wire without its size, a one-bit integer, an event.
TypesAndSizes == {<<"wire", 0>>, <<"integer", 1>>, <<"event", 0>>}

Values == {<<"X">>, <<"1">>, <<"g">>}

Timestamps == 0..MaxTime

\* ------------------------------------------------------------------------
\* Lines of the output file, by their format string.

TimeLine(t) == <<"time", t>>

ChangeLine(value, ident) == <<"change", value, ident>>

UpscopeLine == <<"upscope">>

\* VCDVariable::declartion
declartion(var) == <<"var", var.type, var.size, var.ident, var.name>>

\* VCDWriter::_scope_declaration.  sub_end defaults to npos; substr is never
\* given a sub_beg beyond the end of scope, the scopes being sorted.
_scope_declaration(scope, type, sub_beg, sub_end) ==
    <<"scope", type,
      Substr(scope, sub_beg, IF sub_end = npos THEN npos ELSE sub_end - sub_beg)>>

\* VCDWriter::_dump_values, iterating the tracker in the given order.
_dump_values(keyword, order) ==
    <<<<keyword>>>> \o
    (IF ~_dumping THEN <<>>
     ELSE [i \in 1..Len(order) |->
              ChangeLine(_vars_prevs[order[i]].value, _vars_prevs[order[i]].var.ident)]
          \o <<<<"end">>>>)

\* The line _dump_off writes for one tracked variable (none for a real).
DumpOffLine(p) ==
    IF p.value[1] = "r" THEN <<>>
    ELSE IF p.value[1] = "b" THEN <<ChangeLine(<<"b", "x", " ">>, p.var.ident)>>
    ELSE <<ChangeLine(<<"x">>, p.var.ident)>>

RECURSIVE DumpOffLines(_)
DumpOffLines(order) ==
    IF order = <<>> THEN <<>>
    ELSE DumpOffLine(_vars_prevs[Head(order)]) \o DumpOffLines(Tail(order))

\* VCDWriter::_dump_off, iterating the tracker in the given order.
_dump_off(timestamp, order) ==
    <<TimeLine(timestamp), <<"dumpoff">>>> \o DumpOffLines(order) \o <<<<"end">>>>

\* ------------------------------------------------------------------------
\* VCDWriter::_write_header.

\* The names of _scopes in the order std::set iterates them.
RECURSIVE SortedScopes(_)
SortedScopes(S) ==
    IF S = {} THEN <<>>
    ELSE LET m == CHOOSE x \in S : \A y \in S \ {x} : StrLess(x, y)
         IN <<m>> \o SortedScopes(S \ {m})

\* The header keywords with a non-empty value.
RECURSIVE KeywordLines(_)
KeywordLines(i) ==
    IF i > Len(kw_names) THEN <<>>
    ELSE (IF kw_values[i] = "" THEN <<>> ELSE <<<<"kw", kw_names[i], kw_values[i]>>>>)
         \o KeywordLines(i + 1)

\* The "equal prefix" loop: n and n_prev when the loop is left.
RECURSIVE EqualPrefix(_, _, _, _)
EqualPrefix(scope, scope_prev, n, n_prev) ==
    IF StrNCmpEq(scope, scope_prev, n)
    THEN LET n_prev1 == n + Len(_scope_sep)
             n1 == Find(scope_prev, _scope_sep, n_prev1)
         IN IF n1 = npos
            THEN [n |-> n1, n_prev |-> n_prev1]
            ELSE EqualPrefix(scope, scope_prev, n1, n_prev1)
    ELSE [n |-> n, n_prev |-> n_prev]

\* The "close" loops: one $upscope for each separator of scope_prev from n on.
RECURSIVE CloseLoop(_, _)
CloseLoop(scope_prev, n) ==
    IF n = npos THEN <<>>
    ELSE <<UpscopeLine>>
         \o CloseLoop(scope_prev, Find(scope_prev, _scope_sep, n + Len(_scope_sep)))

\* "scope print close": the lines written and n_prev afterwards.
ScopeClose(scope, scope_prev, n_prev0) ==
    IF Len(scope_prev) = 0 THEN [lines |-> <<>>, n_prev |-> n_prev0]
    ELSE LET n0 == Find(scope_prev, _scope_sep, 0)
             e == EqualPrefix(scope, scope_prev,
                              IF n0 = npos THEN Len(scope_prev) ELSE n0, 0)
         IN [lines |->
                (IF e.n_prev # Len(scope_prev) + Len(_scope_sep)
                 THEN <<UpscopeLine>> ELSE <<>>)
                \o CloseLoop(scope_prev, Find(scope_prev, _scope_sep, e.n_prev)),
             n_prev |-> e.n_prev]

\* "scope print open": one $scope for each segment of scope from n_prev on.
RECURSIVE ScopeOpen(_, _, _)
ScopeOpen(scope, type, n_prev) ==
    LET n == Find(scope, _scope_sep, n_prev)
    IN IF n # npos
       THEN <<_scope_declaration(scope, type, n_prev, n)>>
            \o ScopeOpen(scope, type, n + Len(_scope_sep))
       ELSE <<_scope_declaration(scope, type, n_prev, npos)>>

\* "dump variable declartion" of one scope.
VarLines(scope) ==
    [i \in 1..Len(_scopes[scope].vars) |-> declartion(_scopes[scope].vars[i])]

\* The loop over the sorted scopes, from the i-th on.
RECURSIVE ScopeLoop(_, _, _, _)
ScopeLoop(sorted, i, scope_prev, n_prev) ==
    IF i > Len(sorted) THEN <<>>
    ELSE LET scope == sorted[i]
             c == ScopeClose(scope, scope_prev, n_prev)
         IN c.lines \o ScopeOpen(scope, _scopes[scope].type, c.n_prev)
            \o VarLines(scope)
            \o ScopeLoop(sorted, i + 1, scope, c.n_prev)

\* "scope print close (rest)".
CloseRest(scope_prev) ==
    IF Len(scope_prev) = 0 THEN <<>>
    ELSE <<UpscopeLine>> \o CloseLoop(scope_prev, Find(scope_prev, _scope_sep, 0))

\* The lines _write_header writes.
_write_header ==
    LET sorted == SortedScopes(DOMAIN _scopes)
    IN KeywordLines(1)
       \o ScopeLoop(sorted, 1, <<>>, 0)
       \o CloseRest(IF sorted = <<>> THEN <<>> ELSE sorted[Len(sorted)])
       \o <<<<"enddefinitions">>>>

\* The lines _finalize_registration writes, the tracker iterated in order.
_finalize_registration(order) ==
    _write_header
    \o (IF DOMAIN _vars_prevs # {}
        THEN <<TimeLine(_timestamp)>> \o _dump_values("$dumpvars", order)
             \o (IF ~_dumping THEN _dump_off(_timestamp, order) ELSE <<>>)
        ELSE <<>>)

\* ------------------------------------------------------------------------
\* The operations.

\* The orders in which the tracker (an unordered map) may be iterated.
Orders ==
    LET K == DOMAIN _vars_prevs
        n == Cardinality(K)
    IN {o \in [1..n -> K] : \A i, j \in 1..n : o[i] = o[j] => i = j}

\* The lookup key of a variable: VarPtrHash and VarPtrEqual.
Key(var) == <<var.scope, var.name>>

\* The outcome of a call of _change that throws e having changed nothing.
Unchanged(e, what) ==
    [err |-> e, what |-> what, ret |-> FALSE, timestamp |-> _timestamp,
     registering |-> _registering, header |-> _header,
     prevs |-> _vars_prevs, out |-> _ofile]

\* A gate that finalizes and advances on a timestamp equal to the watermark.
TimeGate_AdvanceOnEqual(timestamp) ==
    [err |-> IF timestamp < _timestamp \/ _closed THEN "PhaseError" ELSE "",
     what |-> IF timestamp < _timestamp THEN "Out of order value change"
              ELSE IF _closed THEN "Cannot change value after close()"
              ELSE "",
     advance |-> timestamp >= _timestamp,
     watermark |-> IF timestamp >= _timestamp THEN timestamp ELSE _timestamp]

\* A gate without the close() check.
TimeGate_NoClosedCheck(timestamp) ==
    [err |-> IF timestamp < _timestamp THEN "PhaseError" ELSE "",
     what |-> IF timestamp < _timestamp THEN "Out of order value change" ELSE "",
     advance |-> timestamp > _timestamp,
     watermark |-> IF timestamp > _timestamp THEN timestamp ELSE _timestamp]

\* A gate that trusts the caller: no out-of-order check, and the watermark
\* overwritten with any timestamp that differs from it.
TimeGate_Trusting(timestamp) ==
    [err |-> IF _closed THEN "PhaseError" ELSE "",
     what |-> IF _closed THEN "Cannot change value after close()" ELSE "",
     advance |-> timestamp # _timestamp,
     watermark |-> timestamp]

\* A gate without the out-of-order check.
TimeGate_NoOrderCheck(timestamp) ==
    [err |-> IF _closed THEN "PhaseError" ELSE "",
     what |-> IF _closed THEN "Cannot change value after close()" ELSE "",
     advance |-> timestamp > _timestamp,
     watermark |-> IF timestamp > _timestamp THEN timestamp ELSE _timestamp]

\* The timestamp gate of _change: the exception of the out-of-order and
\* closed checks, whether the timestamp advances the watermark, and the
\* watermark afterwards.
TimeGate(timestamp) ==
    [err |-> IF timestamp < _timestamp \/ _closed THEN "PhaseError" ELSE "",
     what |-> IF timestamp < _timestamp THEN "Out of order value change"
              ELSE IF _closed THEN "Cannot change value after close()"
              ELSE "",
     advance |-> timestamp > _timestamp,
     watermark |-> IF timestamp > _timestamp THEN timestamp ELSE _timestamp]

\* A comparison that never finds the value unchanged.
SameAsTracked_Never(key, change_value) == FALSE

\* "if value changed": whether the change record is the one tracked.
SameAsTracked(key, change_value) == _vars_prevs[key].value = change_value

\* VCDWriter::_change: the exception thrown ("" for none), the value
\* returned, and the watermark, the phase, the tracker and the output the
\* call leaves.  order is the iteration order of the tracker in finalize.
_change(var, timestamp, value, reg, order) ==
    LET gate == TimeGate(timestamp)
    IN
    IF gate.err # "" THEN Unchanged(gate.err, gate.what)
    ELSE
      LET finalize == gate.advance /\ _registering
          out1 == _ofile
                  \o (IF finalize THEN _finalize_registration(order) ELSE <<>>)
                  \o (IF gate.advance /\ _dumping
                      THEN <<TimeLine(timestamp)>> ELSE <<>>)
          registering1 == _registering /\ ~finalize
          rec == change_record(var, value)
          key == Key(var)
          st == [err |-> "", what |-> "", ret |-> FALSE,
                 timestamp |-> gate.watermark,
                 registering |-> registering1, header |-> _header /\ ~finalize,
                 prevs |-> _vars_prevs, out |-> out1]
          out2 == IF _dumping /\ ~registering1
                  THEN Append(out1, ChangeLine(rec.val, var.ident))
                  ELSE out1
      IN IF rec.err # "" THEN [st EXCEPT !.err = rec.err, !.what = rec.what]
         ELSE IF key \in DOMAIN _vars_prevs
         THEN IF SameAsTracked(key, rec.val)
              THEN st
              ELSE [st EXCEPT !.ret = TRUE, !.out = out2,
                              !.prevs = [_vars_prevs EXCEPT ![key].value = rec.val]]
         ELSE IF ~reg
         THEN [st EXCEPT !.err = "TypeError", !.what = "do not registered"]
         ELSE [st EXCEPT !.ret = TRUE, !.out = out2,
                         !.prevs = _vars_prevs
                                   @@ (key :> [var |-> var, value |-> rec.val])]

\* The change records in the output: the lines of that format outside the
\* $dumpvars and $dumpoff blocks, which are the lines after the last "end".
RECURSIVE Records(_)
Records(out) ==
    IF out = <<>> \/ out[Len(out)][1] = "end" THEN 0
    ELSE (IF out[Len(out)][1] = "change" THEN 1 ELSE 0)
         + Records(SubSeq(out, 1, Len(out) - 1))

\* The record of a call: the operation, the exception it throws ("" for
\* none) with its message, and the value it returns.
Call(op, err, what, ret) == [op |-> op, err |-> err, what |-> what, ret |-> ret]

\* VCDWriter::var: whether the pair names a registered variable.
Registered(scope, name) == <<scope, name>> \in DOMAIN _vars

\* VCDWriter::change, with VCDWriter::var.
change(scope, name, timestamp, value) ==
    /\ Records(_ofile) < MaxRecords
    /\ IF ~Registered(scope, name)
       THEN /\ call' = Call("change", "PhaseError", "does not exist", FALSE)
            /\ UNCHANGED engine
       ELSE \E order \in (IF _registering /\ timestamp > _timestamp
                          THEN Orders ELSE {<<>>}) :
              LET r == _change(_vars[<<scope, name>>], timestamp, value, FALSE, order)
              IN /\ _timestamp' = r.timestamp
                 /\ _registering' = r.registering
                 /\ _header' = r.header
                 /\ _vars_prevs' = r.prevs
                 /\ _ofile' = r.out
                 /\ call' = Call("change", r.err, r.what, r.ret)
                 /\ UNCHANGED <<_dumping, _closed, _scopes, _vars, _next_var_id>>

\* The size register_var uses for an integer, realtime or real of size 0.
DefaultSize == 64

\* A register_var that numbers the variables by the entries of the tracker,
\* which holds none for an event.
NewVar_IdFromTracker(scope, name, type, size) ==
    LET sz(def) == IF size # 0 THEN size ELSE def
        mk(class, bits) ==
            [ident |-> Cardinality(DOMAIN _vars_prevs), type |-> type,
             name |-> name, size |-> bits, scope |-> scope, class |-> class]
    IN CASE type \in {"integer", "realtime"} ->
              IF sz(DefaultSize) = 1 THEN mk("scalar", 1)
              ELSE mk("vector", sz(DefaultSize))
         [] type = "real" -> mk("real", sz(DefaultSize))
         [] type = "string" -> mk("string", sz(1))
         [] type = "event" -> mk("scalar", 1)
         [] OTHER -> mk("vector", size)

\* The variable register_var constructs: the class and the size by the
\* type, the id the next sequential one.
NewVar(scope, name, type, size) ==
    LET sz(def) == IF size # 0 THEN size ELSE def
        mk(class, bits) ==
            [ident |-> _next_var_id, type |-> type, name |-> name,
             size |-> bits, scope |-> scope, class |-> class]
    IN CASE type \in {"integer", "realtime"} ->
              IF sz(DefaultSize) = 1 THEN mk("scalar", 1)
              ELSE mk("vector", sz(DefaultSize))
         [] type = "real" -> mk("real", sz(DefaultSize))
         [] type = "string" -> mk("string", sz(1))
         [] type = "event" -> mk("scalar", 1)
         [] OTHER -> mk("vector", size)

\* The value of the implicit first change: init, or the type default when
\* init is the single character UNDEF.
InitValue(type, size, init) ==
    CASE type \in {"integer", "realtime", "string", "event"} -> init
      [] type = "real" ->
            IF init = <<VCDValues.UNDEF>> THEN <<"0", ".", "0">> ELSE init
      [] OTHER ->
            IF init = <<VCDValues.UNDEF>> THEN Fill(size, VCDValues.UNDEF) ELSE init

\* A register_var that checks for close() only.
RegisterPhaseError_ClosedOnly == _closed

\* The phase checks of register_var.
RegisterPhaseError == _closed \/ ~_registering

\* A duplicate check that compares the internal ids, not the names.
IsDuplicate_ById(duplicate_names_check, pvar) ==
    /\ duplicate_names_check
    /\ \E k \in DOMAIN _vars : _vars[k].ident = pvar.ident

\* The duplicate-name check of register_var.
IsDuplicate(duplicate_names_check, pvar) ==
    duplicate_names_check /\ Key(pvar) \in DOMAIN _vars

\* VCDWriter::register_var.
register_var(scope, name, type, size, init, duplicate_names_check) ==
    LET Ret(e, what) == Call("register_var", e, what, FALSE)
        scopes1 ==
            IF scope \in DOMAIN _scopes THEN _scopes
            ELSE _scopes @@ (scope :> [type |-> _scope_def_type, vars |-> <<>>])
        pvar == NewVar(scope, name, type, size)
        r == IF type # "event"
             THEN _change(pvar, _timestamp, InitValue(type, size, init), TRUE, <<>>)
             ELSE Unchanged("", "")
    IN IF RegisterPhaseError
       THEN /\ call' = Ret("PhaseError",
                           IF _closed THEN "Cannot register after close()"
                           ELSE "registering finished")
            /\ UNCHANGED engine
       ELSE IF Len(scope) = 0 \/ Len(name) = 0
       THEN call' = Ret("TypeError", "Empty scope or name") /\ UNCHANGED engine
       ELSE IF type \notin {"integer", "realtime", "real", "string", "event"} /\ size = 0
       THEN /\ call' = Ret("TypeError", "Must supply size")
            /\ _scopes' = scopes1
            /\ UNCHANGED <<_timestamp, _dumping, _registering, _closed, _header,
                           _vars, _vars_prevs, _next_var_id, _ofile>>
       ELSE /\ _timestamp' = r.timestamp
            /\ _registering' = r.registering
            /\ _header' = r.header
            /\ _vars_prevs' = r.prevs
            /\ _ofile' = r.out
            /\ UNCHANGED <<_dumping, _closed>>
            /\ IF r.err # ""
               THEN /\ call' = Ret(r.err, r.what)
                    /\ _scopes' = scopes1
                    /\ UNCHANGED <<_vars, _next_var_id>>
               ELSE IF IsDuplicate(duplicate_names_check, pvar)
               THEN /\ call' = Ret("TypeError", "Duplicate var")
                    /\ _scopes' = scopes1
                    /\ UNCHANGED <<_vars, _next_var_id>>
               ELSE /\ _next_var_id < MaxVars
                    /\ call' = Ret("", "")
                    /\ _vars' = IF Key(pvar) \in DOMAIN _vars THEN _vars
                                ELSE _vars @@ (Key(pvar) :> pvar)
                    /\ _scopes' = [scopes1 EXCEPT ![scope].vars = Append(@, pvar)]
                    /\ _next_var_id' = _next_var_id + 1

\* close(): the engine moves to CLOSED.
close ==
    /\ _closed' = TRUE
    /\ call' = Call("close", "", "", FALSE)
    /\ UNCHANGED <<_timestamp, _dumping, _registering, _header, _scopes, _vars,
                   _vars_prevs, _next_var_id, _ofile>>

\* VCDWriter::VCDWriter: the state after construction.  The constructor
\* names no initializer for _closed and _next_var_id: they start as their
\* declarations leave them, an engine that is not closed and whose first id
\* is 0.
Init ==
    /\ _timestamp \in InitTimestamps
    /\ _dumping \in DumpingAtStart
    /\ _registering = TRUE
    /\ _closed = FALSE
    /\ _header = TRUE
    /\ _scopes = [s \in {} |-> s]
    /\ _vars = [k \in {} |-> k]
    /\ _vars_prevs = [k \in {} |-> k]
    /\ _next_var_id = 0
    /\ _ofile = <<>>
    /\ call = Call("new", "", "", FALSE)

Register ==
    \E scope \in ScopeNames, name \in RegisterNames, ts \in TypesAndSizes,
       init \in Values, duplicate_names_check \in BOOLEAN :
        register_var(scope, name, ts[1], ts[2], init, duplicate_names_check)

Change ==
    \E scope \in ScopeNames, name \in VarNames, timestamp \in Timestamps,
       value \in Values :
        change(scope, name, timestamp, value)

Close == close

Next == Register \/ Change \/ Close

Spec == Init /\ [][Next]_vars

\* ------------------------------------------------------------------------
\* The claims.

\* The lines a step appends to the output.
Appended == SubSeq(_ofile', Len(_ofile) + 1, Len(_ofile'))

\* The lines of the output of the given format.
LinesOf(out, format) == {i \in 1..Len(out) : out[i][1] = format}

\* C1: once registration is finalized, every register_var call fails with a
\* PhaseError and adds no scope, no variable, no tracker entry and consumes
\* no id; and registration, once finalized, stays finalized.
C1_RegisterOnlyWhileRegistering ==
    [][/\ ~_registering => ~_registering'
       /\ (call'.op = "register_var" /\ ~_registering)
            => /\ call'.err = "PhaseError"
               /\ UNCHANGED engine]_vars

\* A register_var call refused because registration is finalized, on an
\* engine that is not closed.
C1_Witness ==
    /\ call.op = "register_var"
    /\ call.what = "registering finished"
    /\ ~_registering /\ ~_closed
    /\ Len(_ofile) > 0

\* C2: finalize-registration runs at most once (one $enddefinitions at
\* most, written exactly when registration is finalized, which is never
\* undone), it runs in the first change call of a registered variable whose
\* timestamp is strictly greater than the initial timestamp (no step before
\* it moves the watermark, and no such call leaves the engine registering),
\* and no time marker or change record precedes $enddefinitions in the
\* output.
C2_FinalizeOnce ==
    /\ [](/\ Cardinality(LinesOf(_ofile, "enddefinitions")) = (IF _registering THEN 0 ELSE 1)
          /\ _registering => _timestamp \in InitTimestamps /\ _ofile = <<>> /\ _header
          /\ ~_registering => ~_header
          /\ \A i \in LinesOf(_ofile, "time") \cup LinesOf(_ofile, "change") :
                \E j \in LinesOf(_ofile, "enddefinitions") : j < i)
    /\ [][/\ ~_registering => ~_registering' /\ LinesOf(Appended, "enddefinitions") = {}
          /\ (_registering /\ ~_registering')
                => call'.op = "change" /\ _timestamp' > _timestamp
          /\ (_registering /\ _timestamp' # _timestamp) => ~_registering'
          /\ (_registering /\ ~_closed /\ _registering')
                => \A scope \in ScopeNames, name \in VarNames,
                      timestamp \in Timestamps, value \in Values :
                      (Registered(scope, name) /\ timestamp > _timestamp)
                        => ~change(scope, name, timestamp, value)]_vars

\* Registration finalized by a change call, the header and a change record
\* written, and a later change call made.
C2_Witness ==
    /\ ~_registering
    /\ call.op = "change"
    /\ _timestamp = MaxTime
    /\ Cardinality(LinesOf(_ofile, "time")) >= 3
    /\ Records(_ofile) > 0

\* C3: a change call that names a pair never registered, or whose timestamp
\* is less than the watermark, fails with a PhaseError, writes nothing and
\* leaves the phase, the watermark and the tracker unchanged.
\* (Stated by contraposition: a step that ends otherwise is no such call.)
C3_UnknownOrOutOfOrderFails ==
    [][~(call'.err = "PhaseError" /\ UNCHANGED engine)
        => \A scope \in ScopeNames, name \in VarNames, timestamp \in Timestamps,
              value \in Values :
              (~Registered(scope, name) \/ timestamp < _timestamp)
                => ~change(scope, name, timestamp, value)]_vars

\* An out-of-order change of a registered variable refused after the
\* watermark advanced, on an engine that is not closed.
C3_Witness ==
    /\ call.op = "change"
    /\ call.err = "PhaseError"
    /\ call.what = "Out of order value change"
    /\ ~_closed
    /\ _timestamp > 1
    /\ DOMAIN _vars_prevs # {}

\* The last line of the output is a change record.
EndsWithRecord(out) == out # <<>> /\ out[Len(out)][1] = "change"

\* The step is a change call that writes a change record: the record is
\* the last line the call writes (a time marker or the $end of the initial
\* dump ends what it writes otherwise).
WroteRecord == call'.op = "change" /\ EndsWithRecord(Appended)

\* The last time marker of the output (0 when there is none).
LastMarker(out) ==
    LET T == LinesOf(out, "time")
    IN IF T = {} THEN 0 ELSE out[CHOOSE i \in T : \A j \in T : j <= i][2]

C5_Deduplication ==
    [][/\ ~(/\ call'.err = "" /\ ~call'.ret
            /\ ~WroteRecord
            /\ _vars_prevs' = _vars_prevs)
         => \A scope \in ScopeNames, name \in VarNames, timestamp \in Timestamps,
               value \in Values :
               (/\ Registered(scope, name)
                /\ <<scope, name>> \in DOMAIN _vars_prevs
                /\ ~_closed /\ timestamp >= _timestamp
                /\ change_record(_vars[<<scope, name>>], value).err = ""
                /\ change_record(_vars[<<scope, name>>], value).val
                     = _vars_prevs[<<scope, name>>].value)
                 => ~change(scope, name, timestamp, value)
       /\ WroteRecord
         => LET line == _ofile'[Len(_ofile')]
            IN \E key \in DOMAIN _vars \cap DOMAIN _vars_prevs :
                  /\ _vars[key].ident = line[3]
                  /\ _vars_prevs[key].value # line[2]
                  /\ _vars_prevs'[key].value = line[2]]_vars

\* An unchanged value submitted at a later timestamp while dumping: the
\* call returns FALSE and the output ends with its time marker.
C5_Witness ==
    /\ call = Call("change", "", "", FALSE)
    /\ ~_registering /\ _dumping
    /\ Records(_ofile) > 0
    /\ _ofile[Len(_ofile)] = TimeLine(MaxTime)

\* C6: the watermark never decreases; only a change call whose timestamp
\* is strictly greater than the watermark modifies it, and sets it to that
\* timestamp; register_var and a change at the watermark leave it.
C6_WatermarkMonotonic ==
    [][/\ _timestamp' >= _timestamp
       /\ call'.op # "change" => _timestamp' = _timestamp
       /\ _timestamp' # _timestamp
            => \A scope \in ScopeNames, name \in VarNames,
                  timestamp \in Timestamps, value \in Values :
                  change(scope, name, timestamp, value)
                    => timestamp > _timestamp /\ _timestamp' = timestamp]_vars

\* The watermark advanced twice, the second time by a change call.
C6_Witness ==
    /\ call.op = "change"
    /\ _timestamp = MaxTime
    /\ LinesOf(_ofile, "time") # {}
    /\ \E i \in LinesOf(_ofile, "time") : _ofile[i][2] \notin InitTimestamps \cup {MaxTime}

\* C7: while registering, a register_var call with the duplicate check
\* enabled that names a registered pair fails with a TypeError, and leaves
\* the registry, the scopes' variable lists and the next id as they were.
\* (Stated by contraposition.)
C7_DuplicateRejected ==
    [][~(/\ call'.err = "TypeError"
         /\ _vars' = _vars /\ _scopes' = _scopes
         /\ _next_var_id' = _next_var_id)
        => \A scope \in ScopeNames, name \in RegisterNames, ts \in TypesAndSizes,
              init \in Values :
              (_registering /\ ~_closed /\ Registered(scope, name))
                => ~register_var(scope, name, ts[1], ts[2], init, TRUE)]_vars

\* A registration refused as a duplicate.
C7_Witness ==
    /\ call = Call("register_var", "TypeError", "Duplicate var", FALSE)
    /\ _registering
    /\ _next_var_id = 1
    /\ \E k \in DOMAIN _vars : Len(_scopes[k[1]].vars) = 1

\* C8: CLOSED is terminal, and once the engine is closed every register_var
\* and every change call fails with a PhaseError and changes nothing.
C8_ClosedIsTerminal ==
    [][/\ _closed => _closed'
       /\ (_closed /\ call'.op \in {"register_var", "change"})
            => call'.err = "PhaseError" /\ UNCHANGED engine]_vars

\* A change of a registered variable at an acceptable timestamp refused
\* because the engine is closed.
C8_Witness ==
    /\ _closed
    /\ call = Call("change", "PhaseError", "Cannot change value after close()", FALSE)
    /\ DOMAIN _vars # {}

\* C9: change returns TRUE exactly when the call wrote a change record.
C9_ReturnsWhetherEmitted ==
    [][(call'.op = "change" /\ call'.err = "") => (call'.ret <=> WroteRecord)]_vars

\* C10: a change call that fails with a TypeError writes nothing and leaves
\* the phase, the watermark and the tracker as they were.
C10_TypeErrorBeforeOutput ==
    [][(call'.op = "change" /\ call'.err = "TypeError")
        => UNCHANGED <<_ofile, _registering, _timestamp, _vars_prevs>>]_vars

\* ------------------------------------------------------------------------
\* The scope tree: registrations over a set of scope paths, then the change
\* call that finalizes the registration and writes the header.

\* Largest number of scopes registered.
MaxScopes == 3

\* The scope paths registered: a root, its children and grandchild, a
\* second root, and a root whose name extends the name of the first.
HeaderScopes ==
    {<<"a">>, <<"a", ".", "b">>, <<"a", ".", "c">>, <<"a", ".", "b", ".", "c">>,
     <<"a", "b">>, <<"b">>}

\* register_var of a one-bit integer, or of a wire without its size (which
\* fails having inserted the scope), in one of the scope paths.
HeaderRegister ==
    \E scope \in HeaderScopes, ts \in {<<"integer", 1>>, <<"wire", 0>>} :
        /\ scope \in DOMAIN _scopes \/ Cardinality(DOMAIN _scopes) < MaxScopes
        /\ register_var(scope, <<"c">>, ts[1], ts[2], <<"1">>, TRUE)

\* The change call that advances the watermark.
HeaderChange ==
    \E key \in DOMAIN _vars :
        change(key[1], key[2],
               IF _timestamp < MaxTime THEN _timestamp + 1 ELSE MaxTime, <<"1">>)

HeaderNext == HeaderRegister \/ HeaderChange

HeaderSpec == Init /\ [][HeaderNext]_vars

\* The segments of a scope path, from the 0-based position pos on.
RECURSIVE SegmentsFrom(_, _)
SegmentsFrom(scope, pos) ==
    LET n == Find(scope, _scope_sep, pos)
    IN IF n = npos THEN <<Substr(scope, pos, npos)>>
       ELSE <<Substr(scope, pos, n - pos)>>
            \o SegmentsFrom(scope, n + Len(_scope_sep))

Segments(scope) == SegmentsFrom(scope, 0)

\* The number of leading segments two paths share.
RECURSIVE Shared(_, _)
Shared(p, q) ==
    IF p = <<>> \/ q = <<>> \/ Head(p) # Head(q) THEN 0
    ELSE 1 + Shared(Tail(p), Tail(q))

\* The lines of the declaration block: $scope, $var and $upscope.
TreeLines(out) ==
    SelectSeq(out, LAMBDA line : line[1] \in {"scope", "var", "upscope"})

\* The declaration block that keeps the shared leading segments open: from
\* the i-th sorted scope on, prev being the segments left open, one $upscope
\* for each segment of prev that is not shared, one $scope for each segment
\* of the scope that is not shared, the scope's variables, and after the
\* last scope one $upscope for each segment left open.
RECURSIVE ExpectedTree(_, _, _)
ExpectedTree(sorted, i, prev) ==
    IF i > Len(sorted) THEN [j \in 1..Len(prev) |-> UpscopeLine]
    ELSE LET cur == Segments(sorted[i])
             k == Shared(prev, cur)
         IN [j \in 1..(Len(prev) - k) |-> UpscopeLine]
            \o [j \in 1..(Len(cur) - k) |->
                   <<"scope", _scopes[sorted[i]].type, cur[k + j]>>]
            \o VarLines(sorted[i])
            \o ExpectedTree(sorted, i + 1, cur)

\* A segment of the path ends after its first n characters.
SegmentEnd(path, n) ==
    n = Len(path) \/ SubSeq(path, n + 1, n + Len(_scope_sep)) = _scope_sep

\* No path has a segment whose name only begins with the name of a segment
\* of another: where the leading segments of a path are the first
\* characters of another path, a segment of that path ends there too.
WholeSegments(S) ==
    \A p, q \in S : \A n \in 1..Len(p) :
        (SegmentEnd(p, n) /\ Len(q) >= n /\ SubSeq(q, 1, n) = SubSeq(p, 1, n))
          => SegmentEnd(q, n)

\* C11: the declaration block keeps the shared leading segments open: one
\* $upscope for each segment of the previous path that is not shared and one
\* $scope for each segment of the current path that is not shared, so that
\* a scope that is the parent of the next one is not closed and reopened.
\* (Stated for the sets of paths whose segments are compared whole.)
C11_SharedSegmentsStayOpen ==
    (~_registering /\ WholeSegments(DOMAIN _scopes))
      => TreeLines(_ofile) = ExpectedTree(SortedScopes(DOMAIN _scopes), 1, <<>>)

\* The names of the scopes open after the first i lines of the block.
RECURSIVE OpenStack(_, _)
OpenStack(tree, i) ==
    IF i = 0 THEN <<>>
    ELSE LET open == OpenStack(tree, i - 1)
         IN CASE tree[i][1] = "scope" -> Append(open, tree[i][3])
              [] tree[i][1] = "upscope" ->
                    IF open = <<>> THEN <<>> ELSE SubSeq(open, 1, Len(open) - 1)
              [] OTHER -> open

\* The number of lines of the format among the first i lines of the block.
CountOf(tree, format, i) == Cardinality({j \in 1..i : tree[j][1] = format})

\* The path of the scope that holds the variable of the id.
ScopeOfId(ident) ==
    CHOOSE scope \in DOMAIN _scopes :
        \E j \in 1..Len(_scopes[scope].vars) : _scopes[scope].vars[j].ident = ident

\* C16: the declaration block is well nested: the $upscope lines never
\* outnumber the $scope lines, the two numbers are equal at $enddefinitions,
\* no $scope line has an empty name, and the scopes open at each $var line
\* are the segments of the scope path of its variable.
C16_WellNested ==
    ~_registering
      => LET tree == TreeLines(_ofile)
         IN /\ \A i \in 1..Len(tree) :
                  CountOf(tree, "upscope", i) <= CountOf(tree, "scope", i)
            /\ CountOf(tree, "upscope", Len(tree)) = CountOf(tree, "scope", Len(tree))
            /\ \A i \in 1..Len(tree) : tree[i][1] = "scope" => tree[i][3] # <<>>
            /\ \A i \in 1..Len(tree) :
                  tree[i][1] = "var"
                    => OpenStack(tree, i) = Segments(ScopeOfId(tree[i][4]))

\* ------------------------------------------------------------------------
\* The encoders: one variable registered, and its change_record (a public
\* method of the variable register_var returns) called with a value.

\* Largest size of the wire registered.
MaxWidth == 4

\* Largest length of the value encoded.
MaxLen == 3

\* The characters of the values: a state, the unknown state in both cases,
\* and a character that is no state.
EncChars == {"1", "x", "X", "g"}

\* The values encoded: every string of at most MaxLen characters.
EncValues == UNION {[1..n -> EncChars] : n \in 0..MaxLen}

\* The values a real variable is given: two numbers and a string that is
\* no number.
RealValues == {<<"0", ".", "0">>, <<"1">>, <<"g">>}

\* The types and sizes registered: wires of every size, integers of the
\* default size, of one bit and of two, a real and an event.
EncTypesAndSizes ==
    {<<"wire", w>> : w \in 1..MaxWidth}
    \cup {<<"integer", 0>>, <<"integer", 1>>, <<"integer", 2>>,
          <<"real", 0>>, <<"event", 0>>}

\* The initial values: the unknown default and a state.
EncInits == {<<VCDValues.UNDEF>>, <<"1">>}

\* register_var of the one variable.
EncRegister ==
    \E ts \in EncTypesAndSizes, init \in EncInits :
        /\ _next_var_id = 0
        /\ register_var(<<"a">>, <<"c">>, ts[1], ts[2], init, TRUE)

\* var->change_record(value), called on a registered variable: the call
\* records the variable, the value, the exception and the record returned.
ChangeRecord ==
    \E key \in DOMAIN _vars :
      \E value \in (IF _vars[key].class = "real" THEN RealValues ELSE EncValues) :
        LET r == change_record(_vars[key], value)
        IN /\ call' = [op |-> "change_record", err |-> r.err, what |-> r.what,
                       ret |-> r.val, var |-> _vars[key], value |-> value]
           /\ UNCHANGED engine

EncoderNext == EncRegister \/ ChangeRecord

EncoderSpec == Init /\ [][EncoderNext]_vars

\* The value is made of the four states, in either case.
AllStates(value) == \A i \in 1..Len(value) : IsVCDValue(tolower(value[i]))

\* The value in lower case.
Lower(value) == [i \in 1..Len(value) |-> tolower(value[i])]

\* C12: the scalar encoder returns the lower-cased character of a value
\* that is one of the four states, returns x for the empty value, and fails
\* with a TypeError for every other value.
C12_ScalarEncoder ==
    (call.op = "change_record" /\ call.var.class = "scalar")
      => IF call.value = <<>>
         THEN call.err = "" /\ call.ret = <<VCDValues.UNDEF>>
         ELSE IF Len(call.value) = 1 /\ AllStates(call.value)
         THEN call.err = "" /\ call.ret = Lower(call.value)
         ELSE call.err = "TypeError"

\* C13: the vector encoder fails with a TypeError for a value longer than
\* the size or with a character, at any position, that is none of the four
\* states; otherwise it returns b, the lower-cased value right-aligned and
\* zero-filled to the size, and a space.  (Stated for the values that are
\* not empty.)
C13_VectorEncoder ==
    (call.op = "change_record" /\ call.var.class = "vector" /\ call.value # <<>>)
      => IF Len(call.value) > call.var.size \/ ~AllStates(call.value)
         THEN call.err = "TypeError"
         ELSE /\ call.err = ""
              /\ call.ret = <<"b">>
                            \o Fill(call.var.size - Len(call.value), VCDValues.ZERO)
                            \o Lower(call.value) \o <<" ">>

\* C19: the vector encoder returns b, the unknown state in every bit and a
\* space for the empty value, and does not fail.
C19_EmptyVectorIsUnknown ==
    (call.op = "change_record" /\ call.var.class = "vector" /\ call.value = <<>>)
      => /\ call.err = ""
         /\ call.ret = <<"b">> \o Fill(call.var.size, VCDValues.UNDEF) \o <<" ">>

\* The encoding of the default of the variable's type: the unknown state
\* for a scalar and in every bit of a vector, 0.0 for a real.
TypeDefault(var) ==
    CASE var.class = "scalar" -> <<VCDValues.UNDEF>>
      [] var.class = "vector" ->
            <<"b">> \o Fill(var.size, VCDValues.UNDEF) \o <<" ">>
      [] var.class = "real" -> <<"r", "0", " ">>

\* C17: a register_var given the unknown default as initial value seeds the
\* tracker with the default of the type of the variable it registers.
C17_TrackerSeededWithTypeDefault ==
    [][\A ts \in EncTypesAndSizes :
          (/\ ts[1] # "event"
           /\ register_var(<<"a">>, <<"c">>, ts[1], ts[2], <<VCDValues.UNDEF>>, TRUE)
           /\ call'.err = "")
            => /\ <<<<"a">>, <<"c">>>> \in DOMAIN _vars_prevs'
               /\ _vars_prevs'[<<<<"a">>, <<"c">>>>].value
                    = TypeDefault(_vars'[<<<<"a">>, <<"c">>>>])]_vars

\* ------------------------------------------------------------------------
\* The claims about the initial dump, the failures of register_var, the
\* changes of registered variables and the ids.

\* The lines of the output after $enddefinitions.
AfterEndDefinitions(out) ==
    LET i == CHOOSE j \in LinesOf(out, "enddefinitions") : TRUE
    IN SubSeq(out, i + 1, Len(out))

C15_FailedRegisterChangesNothing ==
    [][(call'.op = "register_var" /\ call'.err = "TypeError")
        => UNCHANGED <<_scopes, _vars, _vars_prevs, _next_var_id>>]_vars

\* C18: a change call of a registered variable, before close, with a
\* timestamp that is not less than the watermark and a value its encoder
\* accepts, does not fail.  (Stated by contraposition: a change step that
\* fails is no such call.)
C18_ChangeOfRegisteredSucceeds ==
    [][(call'.op = "change" /\ call'.err # "")
        => \A scope \in ScopeNames, name \in VarNames, timestamp \in Timestamps,
              value \in Values :
              (/\ Registered(scope, name)
               /\ ~_closed /\ timestamp >= _timestamp
               /\ change_record(_vars[<<scope, name>>], value).err = "")
                => ~change(scope, name, timestamp, value)]_vars

\* The variables of the scopes' lists, each by its scope and its place.
ListedVars ==
    UNION {{<<scope, i>> : i \in 1..Len(_scopes[scope].vars)} :
             scope \in DOMAIN _scopes}

\* C20: the ids are sequential: the next id is the number of the variables
\* in the scopes' lists, which carry the ids below it, one each; a
\* successful register_var gives its variable the next id and advances it by
\* one, every other step leaves it; and the $var lines of the output carry
\* pairwise distinct ids.
C20_SequentialIds ==
    /\ [](/\ Cardinality(ListedVars) = _next_var_id
          /\ {_scopes[p[1]].vars[p[2]].ident : p \in ListedVars}
               = 0..(_next_var_id - 1)
          /\ \A i, j \in LinesOf(_ofile, "var") :
                i # j => _ofile[i][4] # _ofile[j][4])
    /\ [][IF call'.op = "register_var" /\ call'.err = ""
          THEN /\ _next_var_id' = _next_var_id + 1
               /\ \E scope \in DOMAIN _scopes' :
                     LET list == _scopes'[scope].vars
                     IN /\ list # <<>>
                        /\ list[Len(list)].ident = _next_var_id
                        /\ \A other \in DOMAIN _scopes' \ {scope} :
                              other \in DOMAIN _scopes
                              /\ _scopes'[other] = _scopes[other]
          ELSE _next_var_id' = _next_var_id]_vars

\* Two registrations succeeded, one of an event, a third was refused, and
\* the header declares the two variables.
C20_Witness ==
    /\ _next_var_id = 2
    /\ ~_registering
    /\ Cardinality(LinesOf(_ofile, "var")) = 2
    /\ \E i \in LinesOf(_ofile, "var") : _ofile[i][2] = "event"
    /\ call.op = "register_var" /\ call.err = "PhaseError"

\* The lines of the $dumpvars block of the output: the change lines between
\* $dumpvars and an $end.
DumpVarsLines(out) ==
    {i \in LinesOf(out, "change") :
        /\ \E j \in 1..(i - 1) : out[j] = <<"$dumpvars">>
        /\ \E k \in (i + 1)..Len(out) : out[k] = <<"end">>}

\* C21: with dumping enabled, the step that finalizes the registration
\* writes exactly one line of the $dumpvars block for each declared variable
\* that is no event, carrying its id, and the change record a change call
\* writes carries the id of the variable the call names.
C21_DeclaredVarsAreDumped ==
    [][_dumping
        => /\ (_registering /\ ~_registering')
                => \A p \in ListedVars :
                      LET var == _scopes[p[1]].vars[p[2]]
                      IN var.type # "event"
                           => Cardinality({i \in DumpVarsLines(_ofile') :
                                             _ofile'[i][3] = var.ident}) = 1
           /\ WroteRecord
                => \A scope \in ScopeNames, name \in VarNames,
                      timestamp \in Timestamps, value \in Values :
                      change(scope, name, timestamp, value)
                        => /\ Registered(scope, name)
                           /\ _ofile'[Len(_ofile')][3]
                                = _vars[<<scope, name>>].ident]_vars

====
